---- MODULE Spec2Model ----
(***************************************************************************)
(* LastPass event reporting modular input                                  *)
(* (bin/input_module_lastpass_event_reporting.py).                         *)
(*                                                                         *)
(* Time values of unknown representation are tagged records                *)
(* [k, s, us]: k is the representation, s whole epoch seconds, us the      *)
(* microseconds.  Naive local datetimes are identified with their epoch    *)
(* (a fixed UTC offset is assumed).                                        *)
(*   "none"     None                 "empty"    the empty string           *)
(*   "missing"  an absent dict key   "junk"     an unparseable string      *)
(*   "int"      a Python int         "num"      a Python float             *)
(*   "digits"   a string of digits   "floatstr" a string of a float        *)
(*   "fmt"      a 'YYYY-mm-dd HH:MM:SS' string                             *)
(*   "dt"       a datetime object    "raise"    an exception was raised    *)
(* A checkpoint payload is [k |-> "dict", time_curr, time_start, time_end].*)
(***************************************************************************)
EXTENDS Integers, Sequences, FiniteSets, TLC

\* ---------------------------------------------------------------- constants
\* seconds of timedelta(days=1)
Day == 86400
MaxAgeDays == 1460
\* CheckpointEvery with a shorter period
CheckpointEvery_100 == 1000 \div 10
CheckpointEvery == 1000
LargeRangeDays == 7
LargeIncr == 3

\* ------------------------------------------------------------------- bounds
MaxRecords == 2500
NowSeconds == 1704844800
NowMicros == 250000

V(k, s, us) == [k |-> k, s |-> s, us |-> us]
None == V("none", 0, 0)
Raise == V("raise", 0, 0)
Missing == V("missing", 0, 0)
Junk == V("junk", 0, 0)
Empty == V("empty", 0, 0)

Dict(tc, ts, te) ==
    [k |-> "dict", time_curr |-> tc, time_start |-> ts, time_end |-> te]

\* Python truthiness of a value (the `not x` / `if x` / `x and ...` tests).
Truthy(v) ==
    CASE v.k \in {"none", "empty", "missing"} -> FALSE
      [] v.k \in {"int", "num"} -> ~(v.s = 0 /\ v.us = 0)
      [] OTHER -> TRUE

\* int(val) succeeds
check_digit(val) == val.k \in {"int", "num", "digits"}

\* isinstance(val, datetime.datetime)
check_datetime(val) == val.k = "dt"

\* float(str(val)) parses
FloatParses(val) == val.k \in {"int", "num", "digits", "floatstr"}

\* float(str(val)) > 0
check_float(val) ==
    FloatParses(val) /\ (val.s > 0 \/ (val.s = 0 /\ val.us > 0))

\* str(val)
Str(val) ==
    CASE val.k = "int" -> V("digits", val.s, 0)
      [] val.k = "num" -> V("floatstr", val.s, val.us)
      [] OTHER -> val

RECURSIVE Contains(_, _)
\* Python `sub in s` for two strings (sequences of characters)
Contains(sub, s) ==
    IF Len(s) < Len(sub) THEN FALSE
    ELSE IF SubSeq(s, 1, Len(sub)) = sub THEN TRUE
    ELSE Contains(sub, Tail(s))

HTTPS == <<"h", "t", "t", "p", "s", ":", "/", "/">>
HTTP == <<"h", "t", "t", "p">>
DOT == <<".">>

\* get_time_lp: the wire format keeps whole seconds only
get_time_lp(time_val) == time_val.s

\* prepare_time_value: the storage string of a time value, or Raise
prepare_time_value(val) ==
    IF check_digit(val) THEN Str(val)
    ELSE IF check_datetime(val) THEN Str(V("num", val.s, val.us))
    ELSE IF ~FloatParses(val) THEN Raise
    ELSE IF val.s # 0 \/ val.us # 0 THEN Str(V("num", val.s, val.us))
    ELSE Raise

\* save_checkpoint with the start and the end of the invocation exchanged
save_checkpoint_swapped(time_curr, time_start, time_end) ==
    LET c == prepare_time_value(time_curr)
        s == prepare_time_value(time_end)
        e == prepare_time_value(time_start)
    IN  IF c = Raise \/ s = Raise \/ e = Raise THEN Raise ELSE Dict(c, s, e)

\* save_checkpoint writing the fields it could normalise
save_checkpoint_partial(time_curr, time_start, time_end) ==
    LET c == prepare_time_value(time_curr)
        s == prepare_time_value(time_start)
        e == prepare_time_value(time_end)
    IN  Dict(IF c = Raise THEN Missing ELSE c,
             IF s = Raise THEN Missing ELSE s,
             IF e = Raise THEN Missing ELSE e)

\* save_checkpoint: the payload handed to helper.save_check_point, or Raise
save_checkpoint(time_curr, time_start, time_end) ==
    LET c == prepare_time_value(time_curr)
        s == prepare_time_value(time_start)
        e == prepare_time_value(time_end)
    IN  IF c = Raise \/ s = Raise \/ e = Raise THEN Raise ELSE Dict(c, s, e)

\* A field of a stored dict passes `payload[f] and prepare_time_value(...)`
FieldValid(f) == Truthy(f) /\ prepare_time_value(f) # Raise

\* get_checkpoint applied to the raw stored value: a legacy number is
\* upgraded (line 195); any other non-dict makes the handler of line 208
\* raise on state_payload.get; a dict gives None whether the validation
\* fails (line 211) or passes (line 215)
get_checkpoint(state_payload) ==
    IF state_payload.k # "dict"
    THEN IF check_digit(state_payload) \/ check_float(state_payload)
         THEN Dict(None, state_payload, None)
         ELSE Raise
    ELSE IF ~(FieldValid(state_payload.time_curr)
              /\ FieldValid(state_payload.time_start)
              /\ FieldValid(state_payload.time_end))
         THEN None
         ELSE None

\* (a - b).days for two datetimes
DiffDays(a, b) ==
    (a.s - b.s - (IF a.us < b.us THEN 1 ELSE 0)) \div Day

\* convert_time: a datetime, or None; str() of a datetime without
\* microseconds has the 'YYYY-mm-dd HH:MM:SS' form and parses
convert_time(time_val) ==
    IF check_digit(time_val) THEN V("dt", time_val.s, 0)
    ELSE IF check_float(time_val) THEN V("dt", time_val.s, time_val.us)
    ELSE IF time_val.k = "fmt" THEN V("dt", time_val.s, 0)
    ELSE IF time_val.k = "dt" /\ time_val.us = 0 THEN time_val
    ELSE None

\* get_time_dt without the test of the range
get_time_dt_unbounded(time_val, now) ==
    IF ~Truthy(time_val) THEN None ELSE convert_time(time_val)

\* get_time_dt: a datetime within [now - 4 years, now], or None
get_time_dt(time_val, now) ==
    IF ~Truthy(time_val) THEN None
    ELSE LET time_dt == convert_time(time_val)
         IN  IF time_dt = None THEN None
             ELSE IF DiffDays(now, time_dt) > MaxAgeDays
                     \/ DiffDays(now, time_dt) < 0 THEN None
             ELSE time_dt

\* str(val).isdigit()
isdigit(val) == val.k \in {"int", "digits"}

\* lines 54-69: the checks of time_start pass (no ValueError is raised):
\* the range is tested for digits only, any other value has to parse as a
\* 'YYYY-mm-dd HH:MM:SS' string
time_start_valid(time_start, now) ==
    IF isdigit(time_start)
    THEN LET time_dt == V("dt", time_start.s, 0)
         IN  ~(DiffDays(now, time_dt) > 365 * 4 \/ DiffDays(now, time_dt) < 0)
    ELSE IF time_start.k = "none" THEN TRUE
    ELSE time_start.k = "fmt"

\* validate_input: whether the stanza is accepted, and the URL it then holds
validate_input(url, time_start, now) ==
    IF Contains(HTTPS, url) THEN [ok |-> TRUE, url |-> url]
    ELSE IF Contains(HTTP, url) THEN [ok |-> FALSE, url |-> url]
    ELSE IF ~Contains(DOT, url) THEN [ok |-> FALSE, url |-> url]
    ELSE [ok |-> time_start_valid(time_start, now), url |-> HTTPS \o url]

\* a < b for two datetimes
Earlier(a, b) == a.s < b.s \/ (a.s = b.s /\ a.us < b.us)

\* a - b: a timedelta for two datetimes, TypeError for any other operands
Subtract(a, b) ==
    IF a.k = "dt" /\ b.k = "dt"
    THEN [k |-> "delta", days |-> DiffDays(a, b)]
    ELSE Raise

\* d > 0: ordering a timedelta against an int is a TypeError
GreaterThanZero(d) == Raise

\* (time_now - timedelta(days=1)).replace(microsecond=0)
time_default(now) == V("dt", now.s - Day, 0)

\* effective_start with the operator's start dropped in favour of the default
effective_start_default(op, chk, now) ==
    IF Truthy(chk) THEN Raise ELSE time_default(now)

\* collect_events, lines 407-426: the start of collection as a datetime,
\* None when the conversion of line 413 fails, Raise when line 421 raises
effective_start(op, chk, now) ==
    IF ~Truthy(op) /\ ~Truthy(chk) THEN time_default(now)
    ELSE IF ~Truthy(op) /\ Truthy(chk) THEN get_time_dt(chk, now)
    ELSE IF Truthy(op) /\ ~Truthy(chk) THEN op
    ELSE IF Subtract(chk, op) = Raise THEN Raise
    ELSE IF GreaterThanZero(Subtract(chk, op)) = Raise THEN Raise
    ELSE IF GreaterThanZero(Subtract(chk, op))
         THEN get_time_dt(chk.time_start, now)
    ELSE time_default(now)

\* day_incr_of with the large-range test lost
day_incr_always_one(days) == 1

\* day_incr = 1 if diff.days < 7 else 3
day_incr_of(days) == IF days < LargeRangeDays THEN 1 ELSE LargeIncr

\* InRange with the range ending at diff.days
InRange_exclusive(i, days) == i < days

\* range(0, diff.days + 1, day_incr) contains i
InRange(i, days) == i < days + 1

\* lines 437-444: the query window of loop index i, in wire format
window(ts, now, i) ==
    LET start == V("dt", ts.s + i * Day, ts.us)
        incr == day_incr_of(DiffDays(now, ts))
        end0 == V("dt", start.s + incr * Day - 1, start.us)
        end == IF Earlier(now, end0) THEN now ELSE end0
    IN  [from |-> get_time_lp(start), to |-> get_time_lp(end)]

OK == <<"O", "K">>

\* line 458: 'OK' not in resp_ev_json['status']
status_rejected(status) == ~Contains(OK, status)

\* lines 451-460: what becomes of a received response.  A non-200 code or
\* an 'Authorization Error' body calls helper.log_exception, which is not
\* among the logging functions of the helper (log, log_debug, log_info,
\* log_warning, log_error, log_critical; lines 308-314): the AttributeError
\* is raised again at line 500.  Otherwise the decoded status decides
\* between sys.exit(1) and the record loop.
response_outcome(code, auth, status) ==
    IF code # 200 \/ auth THEN "raised"
    ELSE IF status_rejected(status) THEN "exited"
    ELSE "emit"

\* lines 473-480: the event time of a record with the given Time field
event_time_of(time_field, now) ==
    LET t == convert_time(time_field)
    IN  IF ~Truthy(t) THEN V("num", now.s, now.us)
        ELSE V("floatstr", t.s, t.us)

\* event_time_reset with the time of the previous window's last record kept
event_time_kept(last) == last

\* line 440: event_time at the start of a window's iteration
event_time_reset(last) == None

\* the count of emitted records at which the loop next saves or ends
next_stop(chk_ptr, n) ==
    LET m == (chk_ptr \div CheckpointEvery + 1) * CheckpointEvery
    IN  IF m < n THEN m ELSE n

VARIABLES
    store,               \* the value kept under LP_CHECKPOINT_KEY
    clock,               \* datetime.datetime.now()
    definition,          \* validate_input: the parameters of the input stanza
    time_setting,        \* helper.get_global_setting('time_start')
    pc,                  \* position of the invocation: "start", "loaded",
                         \* "fetch", "emit", "done", "exited" (sys.exit(1)),
                         \* "raised" (an exception left collect_events)
    read_ok,             \* get_checkpoint: helper.get_check_point returned
    payload_checkpoint,  \* collect_events: result of get_checkpoint
    time_start,          \* collect_events: start of collection
    time_now,            \* collect_events: time of the invocation
    i,                   \* collect_events: loop index of line 436, in days
    resp,                \* the decoded response being processed
    chk_ptr,             \* collect_events: counter of line 462
    emitted,             \* records of the last response written to ew
    event_time,          \* collect_events: time of the last emitted record
    queried,             \* windows requested by this invocation, in order
    win_writes,          \* values of chk_ptr at the saves of this window
    sunk,                \* a record was written to the event writer
    wrote,               \* a checkpoint was saved by this invocation
    prev                 \* summaries of the finished invocations

vars == <<store, clock, definition,
          time_setting, pc, read_ok, payload_checkpoint,
          time_start,
          time_now, i, resp, chk_ptr, emitted, event_time, queried,
          win_writes, sunk, wrote, prev>>

inv_vars == <<read_ok, payload_checkpoint, time_start, time_now, i, resp,
              chk_ptr, emitted, event_time, queried, win_writes, sunk, wrote>>

Now0 == V("dt", NowSeconds, NowMicros)

NoResp == [code |-> 0, auth |-> FALSE, status |-> <<>>, n |-> 0]

FullRecord ==
    Dict(V("floatstr", NowSeconds - 2 * Day, 0),
         V("floatstr", NowSeconds - 3 * Day, 0),
         V("floatstr", NowSeconds - 2 * Day, 500000))

\* values the checkpoint store can hold when an invocation starts
StoredValues ==
    { None,
      V("int", NowSeconds - 3 * Day, 0),
      V("int", NowSeconds - (MaxAgeDays + 1) * Day, 0),
      V("floatstr", NowSeconds - 3 * Day, 500000),
      Junk,
      FullRecord,
      [FullRecord EXCEPT !.time_start = Missing],
      [FullRecord EXCEPT !.time_end = Junk] }

\* values of the time_start setting
TimeSettings ==
    { None, Junk,
      V("digits", NowSeconds - 3600, 0),
      V("floatstr", NowSeconds - Day - 1, 500000),
      V("floatstr", NowSeconds - Day, 500000),
      V("digits", NowSeconds - 7 * Day + 1, 0),
      V("digits", NowSeconds - 7 * Day, 0),
      V("fmt", NowSeconds - 10 * Day - 5, 0),
      V("digits", NowSeconds + 100, 0),
      V("digits", NowSeconds - (MaxAgeDays + 1) * Day, 0) }

HttpCodes == {200, 500}
Statuses == {OK, <<"F", "A", "I", "L">>, <<"N", "O", "T", " ", "O", "K">>}
RecordCounts == {0, 1, CheckpointEvery, MaxRecords}
Pauses == {3600, 2 * Day}

\* how far after the last stop of the record loop the failing record lies
FailOffsets == {1, 2, CheckpointEvery \div 2, CheckpointEvery}

\* Time fields of a record of the window w
TimeFields(w) == {V("fmt", w.from, 0), Junk, V("digits", 0, 0)}

\* a stanza that validate_input accepted
AcceptedDefinition ==
    [lastpass_api_url |-> HTTPS \o <<"l", "p", ".", "c", "o", "m">>,
     time_start |-> None]

\* values of lastpass_api_url offered at configuration time
Urls ==
    { HTTPS \o <<"l", "p", ".", "c", "o", "m">>,
      HTTP \o <<":", "/", "/", "l", "p", ".", "c", "o", "m">>,
      <<"l", "p", ".", "c", "o", "m">>,
      <<"l", "p">> }

\* values of the stanza's time_start offered at configuration time
StanzaTimes ==
    { None, Junk, Empty,
      V("digits", NowSeconds - 3600, 0),
      V("digits", NowSeconds + 100, 0),
      V("digits", NowSeconds - 365 * 4 * Day, 0),
      V("digits", NowSeconds - (365 * 4 + 1) * Day, 0),
      V("floatstr", NowSeconds - 3600, 500000),
      V("fmt", NowSeconds - 10 * Day, 0),
      V("fmt", NowSeconds + Day, 0),
      V("fmt", NowSeconds - 2000 * Day, 0) }

\* values of the time_start setting at the edges of the accepted range
EdgeSettings ==
    { None, Empty, Junk,
      V("digits", NowSeconds, 0),
      V("digits", NowSeconds + 1, 0),
      V("floatstr", NowSeconds, NowMicros),
      V("floatstr", NowSeconds, NowMicros + 1),
      V("digits", NowSeconds - MaxAgeDays * Day, 0),
      V("digits", NowSeconds - MaxAgeDays * Day - 5, 0),
      V("digits", NowSeconds - (MaxAgeDays + 1) * Day + 1, 0),
      V("digits", NowSeconds - (MaxAgeDays + 1) * Day, 0),
      V("floatstr", NowSeconds - (MaxAgeDays + 1) * Day, NowMicros + 1),
      V("floatstr", NowSeconds - (MaxAgeDays + 1) * Day, NowMicros),
      V("fmt", NowSeconds - 100 * Day, 0),
      V("fmt", NowSeconds + Day, 0),
      V("fmt", NowSeconds - (MaxAgeDays + 2) * Day, 0) }

Init ==
    /\ store \in StoredValues
    /\ clock = Now0
    /\ definition = AcceptedDefinition
    /\ time_setting \in TimeSettings
    /\ pc = "start"
    /\ read_ok = TRUE
    /\ payload_checkpoint = None
    /\ time_start = None
    /\ time_now = None
    /\ i = 0
    /\ resp = NoResp
    /\ chk_ptr = 0
    /\ emitted = 0
    /\ event_time = None
    /\ queried = <<>>
    /\ win_writes = <<>>
    /\ sunk = FALSE
    /\ wrote = FALSE
    /\ prev = <<>>

\* the input is configured: Splunk calls validate_input on the stanza and
\* schedules the input only when no error is raised
ValidateInput ==
    /\ pc = "config"
    /\ LET r == validate_input(definition.lastpass_api_url,
                               definition.time_start, clock)
       IN  /\ pc' = IF r.ok THEN "start" ELSE "rejected"
           /\ definition' = [definition EXCEPT !.lastpass_api_url = r.url]
    /\ UNCHANGED <<store, clock, time_setting, inv_vars, prev>>

\* lines 186-190: helper.get_check_point raised e; the handler formats
\* e.message, which only some exception classes carry
read_failure(has_message) == IF has_message THEN None ELSE Raise

\* line 380: payload_checkpoint = get_checkpoint(helper)
LoadCheckpoint ==
    /\ pc = "start"
    /\ \E ok \in BOOLEAN, has_message \in BOOLEAN :
         LET r == IF ok THEN get_checkpoint(store)
                  ELSE read_failure(has_message)
         IN  /\ read_ok' = ok
             /\ IF r = Raise
                THEN pc' = "raised" /\ UNCHANGED payload_checkpoint
                ELSE pc' = "loaded" /\ payload_checkpoint' = r
    /\ UNCHANGED <<store, clock, definition,
                   time_setting, time_start, time_now, i, resp,
                   chk_ptr, emitted, event_time, queried, win_writes, sunk,
                   wrote, prev>>

\* lines 383-431: the start of collection and the chunk size
PlanStart ==
    /\ pc = "loaded"
    /\ time_now' = clock
    /\ LET op == get_time_dt(time_setting, clock)
           es == effective_start(op, payload_checkpoint, clock)
       IN  IF es = Raise
           THEN pc' = "raised" /\ time_start' = op
           ELSE /\ time_start' = es
                /\ pc' = IF Subtract(clock, es) = Raise THEN "raised"
                         ELSE "fetch"
    /\ UNCHANGED <<store, clock, definition,
                   time_setting, read_ok, payload_checkpoint,
                   i, resp, chk_ptr, emitted, event_time, queried,
                   win_writes, sunk, wrote, prev>>

total_days == DiffDays(time_now, time_start)
day_incr == day_incr_of(total_days)

\* lines 436-462: one request and what its response leads to
FetchWindow ==
    /\ pc = "fetch"
    /\ InRange(i, total_days)
    /\ queried' = Append(queried, window(time_start, time_now, i))
    /\ event_time' = event_time_reset(event_time)
    /\ win_writes' = <<>>
    /\ \E code \in HttpCodes, auth \in BOOLEAN, status \in Statuses,
          n \in RecordCounts :
         /\ resp' = [code |-> code, auth |-> auth, status |-> status, n |-> n]
         /\ pc' = response_outcome(code, auth, status)
         /\ chk_ptr' = IF response_outcome(code, auth, status) = "emit"
                       THEN 0 ELSE chk_ptr
    /\ emitted' = 0
    /\ UNCHANGED <<store, clock, definition,
                   time_setting, read_ok, payload_checkpoint,
                   time_start, time_now, i, sunk, wrote, prev>>

\* lines 449-456, 498-500: the request or the decoding raises
FetchRaises ==
    /\ pc = "fetch"
    /\ InRange(i, total_days)
    /\ queried' = Append(queried, window(time_start, time_now, i))
    /\ event_time' = event_time_reset(event_time)
    /\ win_writes' = <<>>
    /\ resp' = NoResp
    /\ emitted' = 0
    /\ pc' = "raised"
    /\ UNCHANGED <<store, clock, definition,
                   time_setting, read_ok, payload_checkpoint,
                   time_start, time_now, i, chk_ptr, sunk, wrote, prev>>

\* lines 155-176 as called from the loop at the count `at`: the payload is
\* written, or the call raises and the stored value stays
Save(tc, at, write_ok) ==
    LET p == save_checkpoint(tc, time_start, time_now)
    IN  IF p = Raise \/ ~write_ok
        THEN UNCHANGED <<store, win_writes, wrote>>
        ELSE /\ store' = p
             /\ win_writes' = Append(win_writes, at)
             /\ wrote' = TRUE

SaveRaises(tc, write_ok) ==
    save_checkpoint(tc, time_start, time_now) = Raise \/ ~write_ok

\* lines 465-491: emit the records up to the next periodic checkpoint
EmitRecords ==
    /\ pc = "emit"
    /\ chk_ptr < resp.n
    /\ chk_ptr' = next_stop(chk_ptr, resp.n)
    /\ emitted' = next_stop(chk_ptr, resp.n)
    /\ sunk' = TRUE
    /\ \E tf \in TimeFields(queried[Len(queried)]), write_ok \in BOOLEAN :
         LET et == event_time_of(tf, clock)
             at == next_stop(chk_ptr, resp.n)
         IN  /\ event_time' = et
             /\ IF at % CheckpointEvery = 0
                THEN /\ Save(et, at, write_ok)
                     /\ pc' = IF SaveRaises(et, write_ok) THEN "raised"
                              ELSE "emit"
                ELSE UNCHANGED <<store, win_writes, wrote, pc>>
    /\ UNCHANGED <<clock, definition, time_setting, read_ok, payload_checkpoint,
                   time_start, time_now, i, resp, queried, prev>>

\* lines 493-496: the checkpoint at the end of the window, then the next i
EndWindow ==
    /\ pc = "emit"
    /\ chk_ptr = resp.n
    /\ IF Truthy(event_time)
       THEN \E write_ok \in BOOLEAN :
              /\ Save(event_time, chk_ptr, write_ok)
              /\ IF SaveRaises(event_time, write_ok)
                 THEN pc' = "raised" /\ i' = i
                 ELSE pc' = "fetch" /\ i' = i + day_incr
       ELSE /\ i' = i + day_incr
            /\ pc' = "fetch"
            /\ UNCHANGED <<store, win_writes, wrote>>
    /\ UNCHANGED <<clock, definition, time_setting, read_ok, payload_checkpoint,
                   time_start, time_now, resp, chk_ptr, emitted, event_time,
                   queried, sunk, prev>>

\* lines 465-485, 498-500: a record of the response cannot be emitted and
\* the exception is raised again.  The record at the offset `off` after
\* the last stop fails, either at line 473 (no Time key), before its time
\* is taken, or at line 485 (the event writer raises), after it; the
\* records before it were written and counted, and none of them reached
\* a periodic save.
EmitRaises ==
    /\ pc = "emit"
    /\ chk_ptr < resp.n
    /\ \E off \in FailOffsets, at_writer \in BOOLEAN,
          tf_before \in TimeFields(queried[Len(queried)]),
          tf \in TimeFields(queried[Len(queried)]) :
         LET done == chk_ptr + off - 1
         IN  /\ chk_ptr + off <= next_stop(chk_ptr, resp.n)
             /\ chk_ptr' = done
             /\ emitted' = done
             /\ sunk' = (sunk \/ done > chk_ptr)
             /\ event_time' =
                  IF at_writer THEN event_time_of(tf, clock)
                  ELSE IF done > chk_ptr THEN event_time_of(tf_before, clock)
                  ELSE event_time
    /\ pc' = "raised"
    /\ UNCHANGED <<store, clock, definition,
                   time_setting, read_ok, payload_checkpoint,
                   time_start, time_now, i, resp,
                   queried, win_writes, wrote, prev>>

\* line 436: the range is exhausted, collect_events returns
Finish ==
    /\ pc = "fetch"
    /\ ~InRange(i, total_days)
    /\ pc' = "done"
    /\ UNCHANGED <<store, clock, definition, time_setting, inv_vars, prev>>

Summary ==
    [read_ok |-> read_ok, start |-> time_start, now |-> time_now,
     setting |-> time_setting, queried |-> queried, sunk |-> sunk,
     wrote |-> wrote]

\* the host runs the input again after a pause
NextInvocation ==
    /\ pc \in {"done", "exited", "raised"}
    /\ prev = <<>>
    /\ prev' = Append(prev, Summary)
    /\ \E pause \in Pauses : clock' = V("dt", clock.s + pause, clock.us)
    /\ pc' = "start"
    /\ read_ok' = TRUE
    /\ payload_checkpoint' = None
    /\ time_start' = None
    /\ time_now' = None
    /\ i' = 0
    /\ resp' = NoResp
    /\ chk_ptr' = 0
    /\ emitted' = 0
    /\ event_time' = None
    /\ queried' = <<>>
    /\ win_writes' = <<>>
    /\ sunk' = FALSE
    /\ wrote' = FALSE
    /\ UNCHANGED <<store, definition, time_setting>>

Next ==
    \/ LoadCheckpoint
    \/ PlanStart
    \/ FetchWindow
    \/ FetchRaises
    \/ EmitRecords
    \/ EmitRaises
    \/ EndWindow
    \/ Finish

\* one invocation of the input
Spec == Init /\ [][Next]_vars

NextRerun == Next \/ NextInvocation

\* an invocation followed by a second one
SpecRerun == Init /\ [][NextRerun]_vars

\* the state when the stanza is submitted for validation
InitConfig ==
    /\ store \in {FullRecord, V("int", NowSeconds - 3 * Day, 0)}
    /\ clock = Now0
    /\ definition \in [lastpass_api_url : Urls, time_start : StanzaTimes]
    /\ time_setting \in EdgeSettings
    /\ pc = "config"
    /\ read_ok = TRUE
    /\ payload_checkpoint = None
    /\ time_start = None
    /\ time_now = None
    /\ i = 0
    /\ resp = NoResp
    /\ chk_ptr = 0
    /\ emitted = 0
    /\ event_time = None
    /\ queried = <<>>
    /\ win_writes = <<>>
    /\ sunk = FALSE
    /\ wrote = FALSE
    /\ prev = <<>>

NextConfig ==
    \/ ValidateInput
    \/ LoadCheckpoint
    \/ PlanStart

\* configuration of the input, then the start of its first invocation up to
\* the planning of the windows
SpecConfig == InitConfig /\ [][NextConfig]_vars

\* ------------------------------------------------------------ properties

\* lines 383-431 have run in this invocation
Planned == time_now # None

\* the operator's start after line 383
op_start == get_time_dt(time_setting, time_now)

\* the instant a time_start setting denotes
setting_instant ==
    V("dt", time_setting.s,
      IF time_setting.k = "floatstr" THEN time_setting.us ELSE 0)

Range(seq) == {seq[k] : k \in 1..Len(seq)}

Max(S) == CHOOSE x \in S : \A y \in S : y <= x

RECURSIVE CoveredFrom(_, _, _)
\* every second of [t, hi] lies in a window of W
CoveredFrom(t, hi, W) ==
    IF t > hi THEN TRUE
    ELSE LET C == {w \in W : w.from <= t /\ t <= w.to}
         IN  IF C = {} THEN FALSE
             ELSE CoveredFrom(1 + Max({w.to : w \in C}), hi, W)

\* a stored record whose three fields are present, non-empty and normalisable
FullStored ==
    /\ store.k = "dict"
    /\ FieldValid(store.time_curr)
    /\ FieldValid(store.time_start)
    /\ FieldValid(store.time_end)

\* C1 (as claimed): the record written by save_checkpoint in one invocation
\* is what get_checkpoint returns in the next: a non-null record with the
\* three stored values.
C1_SavedRecordIsLoaded ==
    (/\ pc = "loaded" /\ read_ok
     /\ prev # <<>> /\ prev[1].wrote
     /\ FullStored)
    => /\ payload_checkpoint.k = "dict"
       /\ payload_checkpoint.time_curr = store.time_curr
       /\ payload_checkpoint.time_start = store.time_start
       /\ payload_checkpoint.time_end = store.time_end

\* C2 (as claimed): with no operator start and a checkpoint returned by
\* get_checkpoint, the start of collection is the instant of the
\* checkpoint's time_start and the invocation goes on to plan windows.
C2_CheckpointStartUsed ==
    (Planned /\ ~Truthy(op_start) /\ payload_checkpoint.k = "dict")
    => /\ pc # "raised"
       /\ time_start = convert_time(payload_checkpoint.time_start)

\* C3 (as claimed): two successive invocations without operator start, the
\* first of which emitted a record and saved a checkpoint, leave no second
\* between the first start and the second now outside every queried window.
C3_NoRangeSkipped ==
    (/\ pc = "done" /\ read_ok
     /\ prev # <<>> /\ prev[1].read_ok
     /\ time_setting = None
     /\ prev[1].sunk /\ prev[1].wrote)
    => CoveredFrom(get_time_lp(prev[1].start), get_time_lp(time_now),
                   Range(prev[1].queried) \cup Range(queried))

\* the precondition of C4: no usable operator start, no checkpoint loaded
DefaultCase == Planned /\ ~Truthy(op_start) /\ ~Truthy(payload_checkpoint)

\* C4 (as claimed): in the default case the start is now - 24h in whole
\* seconds and a finished invocation has issued exactly one request, for the
\* window from now - 24h to now.
C4_SingleWindow ==
    (DefaultCase /\ pc = "done")
    => /\ time_start = V("dt", time_now.s - 86400, 0)
       /\ queried = <<[from |-> time_now.s - 86400, to |-> time_now.s]>>

\* the two windows of the default case
DefaultWindows ==
    <<[from |-> time_now.s - 86400, to |-> time_now.s - 1],
      [from |-> time_now.s, to |-> time_now.s]>>

\* C4 (amended): in the default case the start is now - 24h in whole seconds
\* and the windows are [now - 24h, now - 1s] and [now, now]: the requests
\* issued are these, in order, and a finished invocation has issued both.
C4_TwoWindows ==
    DefaultCase
    => /\ time_start = V("dt", time_now.s - 86400, 0)
       /\ Len(queried) <= 2
       /\ queried = SubSeq(DefaultWindows, 1, Len(queried))
       /\ (pc = "done" => queried = DefaultWindows)

C4_Witness ==
    /\ DefaultCase /\ pc = "done" /\ time_setting = None
    /\ Len(queried) = 2

\* C5 (as claimed): a decoded status other than OK ends the invocation with
\* no record of the response emitted and no checkpoint written for the
\* window.
C5_NonOkTerminates ==
    (resp # NoResp /\ resp.status # OK)
    => /\ pc = "exited"
       /\ emitted = 0
       /\ win_writes = <<>>

\* the saves of a window after m records: one at every 1000th record
PeriodicWrites(m) == [k \in 1..(m \div 1000) |-> 1000 * k]

\* the window of the last request was processed to its end
WindowDone == pc \in {"fetch", "done"} /\ queried # <<>>

\* C6: within a window the checkpoint is written after every 1000th emitted
\* record, and once more after the last record when the response holds
\* n > 0 records: floor(n/1000) + 1 writes.
C6_WriteCount ==
    /\ pc = "emit" => win_writes = PeriodicWrites(emitted)
    /\ (WindowDone /\ resp.n > 0)
       => /\ win_writes = Append(PeriodicWrites(resp.n), resp.n)
          /\ Len(win_writes) = resp.n \div 1000 + 1

C6_Witness ==
    /\ WindowDone /\ resp.n = 2500
    /\ win_writes = <<1000, 2000, 2500>>

\* C7: with a valid operator start and no checkpoint loaded, the start of
\* collection is the operator's start and the first window begins there.
C7_OperatorStartUsed ==
    (Planned /\ Truthy(op_start) /\ ~Truthy(payload_checkpoint))
    => /\ time_start = setting_instant
       /\ (queried # <<>> => queried[1].from = time_setting.s)

C7_Witness ==
    /\ Planned /\ Truthy(op_start) /\ ~Truthy(payload_checkpoint)
    /\ time_setting.k = "floatstr"
    /\ queried # <<>>

\* the loaded checkpoint's time_start is later than the operator's start
CheckpointNewer ==
    Earlier(op_start, convert_time(payload_checkpoint.time_start))

\* C8 (as claimed): with a valid operator start and a checkpoint whose
\* time_start is later, the start of collection is the instant of the
\* checkpoint's time_start and the invocation goes on to plan windows.
C8_NewerCheckpointUsed ==
    (/\ Planned /\ Truthy(op_start) /\ payload_checkpoint.k = "dict"
     /\ CheckpointNewer)
    => /\ pc # "raised"
       /\ time_start = convert_time(payload_checkpoint.time_start)

\* C9 (as claimed): with a valid operator start and a checkpoint whose
\* time_start is not later, the start of collection is now - 24h and the
\* invocation goes on to plan windows.
C9_OlderCheckpointDefault ==
    (/\ Planned /\ Truthy(op_start) /\ payload_checkpoint.k = "dict"
     /\ ~CheckpointNewer)
    => /\ pc # "raised"
       /\ time_start = V("dt", time_now.s - 86400, 0)

\* whole days between the start of collection and now
WholeDays ==
    (time_now.s - time_start.s
       - (IF time_now.us < time_start.us THEN 1 ELSE 0)) \div 86400

ChunkDays == IF WholeDays < 7 THEN 1 ELSE 3

\* C10: the chunk is 1 day below 7 whole days and 3 days otherwise; the
\* k-th request starts at start + k * chunk days, a finished invocation has
\* issued floor(days / chunk) + 1 of them, and 10 whole days give windows
\* of 3, 3, 3 and 1 days, the last ending at now.
C10_ChunkPolicy ==
    (Planned /\ time_start.k = "dt")
    => /\ Len(queried) <= WholeDays \div ChunkDays + 1
       /\ \A k \in 1..Len(queried) :
            /\ queried[k].from = time_start.s + (k - 1) * ChunkDays * 86400
            /\ queried[k].to <= time_now.s
            /\ k <= WholeDays \div ChunkDays
               => queried[k].to - queried[k].from + 1 = ChunkDays * 86400
       /\ pc = "done" => Len(queried) = WholeDays \div ChunkDays + 1
       /\ (pc = "done" /\ WholeDays = 10)
          => /\ Len(queried) = 4
             /\ \A k \in 1..3 : queried[k].to - queried[k].from + 1 = 3 * 86400
             /\ (queried[4].to - queried[4].from) \div 86400 = 1
             /\ queried[4].to = time_now.s

C10_Witness ==
    /\ Planned /\ pc = "done" /\ time_start.k = "dt" /\ WholeDays = 10
    /\ Len(queried) = 4

\* get_checkpoint (line 380) has just returned or raised, before line 383
AfterLoad == pc \in {"loaded", "raised"} /\ time_now = None

\* the stored value is present but is not a record load() accepts: a record
\* with a missing or unnormalisable field, a value of a wrong type, or a
\* legacy bare number
MalformedStored == store # None /\ ~FullStored

\* C11 (as claimed): get_checkpoint never raises on a malformed stored
\* value: it returns null, or the legacy-upgraded record for a bare number.
C11_LoadNeverRaises ==
    (AfterLoad /\ read_ok /\ MalformedStored)
    => /\ pc = "loaded"
       /\ \/ payload_checkpoint = None
          \/ payload_checkpoint = Dict(None, store, None)

\* C12 (as claimed): get_checkpoint returns null without raising when
\* nothing is stored and when the read of the store fails, and the
\* invocation goes on as if there were no checkpoint.
C12_AbsentOrUnreadableIsNull ==
    (AfterLoad /\ (~read_ok \/ store = None))
    => pc = "loaded" /\ payload_checkpoint = None

\* the response being processed came with a non-200 code or with the
\* 'Authorization Error' marker in its body
Warned == resp # NoResp /\ (resp.code # 200 \/ resp.auth)

\* C13 (as claimed): a non-200 code or an 'Authorization Error' marker does
\* not end the invocation when the decoded status is OK: the window's
\* records are all emitted and the loop goes on; the invocation is ended
\* only by a decoded status other than OK.
C13_WarningsDoNotStop ==
    (Warned /\ resp.status = OK)
    => /\ pc \notin {"exited", "raised"}
       /\ WindowDone => emitted = resp.n

\* the instant t lies more than 4 * 365 days before now
TooOld(t, now) ==
    \/ now.s - t.s > 4 * 365 * Day
    \/ now.s - t.s = 4 * 365 * Day /\ now.us > t.us

\* the stanza's time_start is epoch digits or a formatted timestamp whose
\* instant is later than now or more than 4 * 365 days before now
StanzaOutOfRange ==
    /\ definition.time_start.k \in {"digits", "fmt"}
    /\ LET t == V("dt", definition.time_start.s, 0)
       IN  Earlier(clock, t) \/ TooOld(t, clock)

\* C14 (as claimed): validate_input raises for every stanza whose time_start
\* is later than now or more than 4 years before now, for an 'https://' URL
\* and for a bare domain, for epoch digits and for a formatted timestamp.
C14_OutOfRangeRejected ==
    (/\ pc # "config"
     /\ Contains(HTTPS, definition.lastpass_api_url)
     /\ StanzaOutOfRange)
    => pc = "rejected"

\* a step of the processing of a window whose response holds no records:
\* the response arrives, or the window ends
EmptyWindowStep ==
    \/ pc = "fetch" /\ pc' = "emit" /\ resp'.n = 0
    \/ pc = "emit" /\ resp.n = 0

\* C15: a window whose response holds no records leaves the checkpoint
\* store as it was and no checkpoint write happens for it, whatever the
\* earlier windows of the invocation emitted.
C15_EmptyWindowNoWrite ==
    [][EmptyWindowStep
       => store' = store /\ win_writes' = <<>> /\ wrote' = wrote]_vars

\* an empty window has been processed to its end after an earlier window
\* of the invocation emitted records and saved a checkpoint
C15_Witness ==
    /\ pc = "fetch" /\ Len(queried) >= 2
    /\ resp # NoResp /\ resp.n = 0 /\ ~status_rejected(resp.status)
    /\ sunk /\ wrote /\ win_writes = <<>>
    /\ store = Dict(store.time_curr, prepare_time_value(time_start),
                    prepare_time_value(time_now))

\* the storage string str(float) of an instant or of an epoch value
EpochString(t) == V("floatstr", t.s, t.us)

\* C16: every checkpoint written holds the start of collection of the
\* invocation as time_start (not the window's 'from'), the invocation's now
\* as time_end, and the time of the record emitted last as time_curr; the
\* first two do not change during the invocation.
C16_WrittenFields ==
    [][/\ Len(win_writes') > Len(win_writes)
          => /\ store'.k = "dict"
             /\ store'.time_start = EpochString(time_start)
             /\ store'.time_end = EpochString(time_now)
             /\ store'.time_curr = EpochString(event_time')
             /\ sunk'
       /\ pc \in {"fetch", "emit"}
          => time_start' = time_start /\ time_now' = time_now]_vars

\* a checkpoint was written in a window that does not begin at the start of
\* collection, after records with a parseable Time were emitted
C16_Witness ==
    /\ win_writes # <<>> /\ Len(queried) >= 2
    /\ queried[Len(queried)].from # time_start.s
    /\ time_start.us # 0
    /\ store = Dict(EpochString(event_time), EpochString(time_start),
                    EpochString(time_now))

\* the invocation issued every window of its plan
AllWindowsIssued == pc = "done" /\ queried # <<>>

\* C17 (as claimed): every window has from <= to <= now, and the 'to' of
\* the last window is now, at whole-second granularity, for every start of
\* collection within [now - 4 years, now].
C17_WindowsEndAtNow ==
    AllWindowsIssued
    => /\ \A k \in 1..Len(queried) :
            /\ queried[k].from <= queried[k].to
            /\ queried[k].to <= time_now.s
       /\ queried[Len(queried)].to = time_now.s

\* C18 (as claimed): the windows partition [start of collection, now] at
\* whole-second granularity: they come in increasing order, each begins
\* one second after the previous one ends, the first begins at the start
\* of collection, and every second of the range lies in exactly one window.
C18_WindowsPartitionRange ==
    AllWindowsIssued
    => /\ queried[1].from = time_start.s
       /\ \A k \in 1..(Len(queried) - 1) :
            queried[k + 1].from = queried[k].to + 1
       /\ \A k \in 1..Len(queried) : queried[k].from <= queried[k].to
       /\ \A t \in {time_start.s, time_now.s - 1, time_now.s} :
            Cardinality({k \in 1..Len(queried) :
                           queried[k].from <= t /\ t <= queried[k].to}) = 1

\* the step calls save_checkpoint: the periodic save of line 489 or the
\* save of line 495 at the end of a window that emitted records
SaveAttempt ==
    /\ pc = "emit"
    /\ \/ chk_ptr' > chk_ptr /\ chk_ptr' % 1000 = 0
       \/ chk_ptr' = chk_ptr /\ chk_ptr = resp.n /\ event_time # None

\* the time of a record at the epoch: its float is 0.0, which
\* prepare_time_value refuses
EpochZero == V("floatstr", 0, 0)

\* a stored value made of three storage strings
ThreeStrings(p) ==
    /\ p.k = "dict"
    /\ p.time_curr.k \in {"digits", "floatstr"}
    /\ p.time_start.k \in {"digits", "floatstr"}
    /\ p.time_end.k \in {"digits", "floatstr"}

\* C19: save_checkpoint is all-or-nothing: a call with a value that cannot
\* be normalised raises and leaves the stored record as it was, whatever
\* is written holds three normalised fields, a call that raises (also on a
\* failed write) writes nothing, and nothing runs after the error.
C19_SaveAllOrNothing ==
    [][/\ (SaveAttempt /\ event_time' = EpochZero)
          => pc' = "raised" /\ store' = store
       /\ store' # store => ThreeStrings(store') /\ pc' # "raised"
       /\ (SaveAttempt /\ pc' = "raised")
          => store' = store /\ win_writes' = win_writes
       /\ pc # "raised"]_vars

\* the second periodic save of a window was refused for a record at the
\* epoch; the record of the first save is still the stored one
C19_Witness ==
    /\ pc = "raised" /\ event_time = EpochZero
    /\ emitted = 2000 /\ win_writes = <<1000>> /\ wrote
    /\ ThreeStrings(store) /\ store.time_curr # EpochZero

\* the time_start setting is a string in one of the three representations
SettingParses == time_setting.k \in {"digits", "floatstr", "fmt"}

\* the instant t lies 4 * 365 + 1 days or more before now
WholeDaysExceeded(t, now) ==
    \/ now.s - t.s > (4 * 365 + 1) * Day
    \/ now.s - t.s = (4 * 365 + 1) * Day /\ now.us >= t.us

\* C20 (as claimed): get_time_dt returns null for every value whose
\* instant is later than now or more than 4 * 365 days before now, the
\* converted instant for every parseable value within the range, and never
\* raises.
C20_FourYearBound ==
    (Planned /\ SettingParses)
    => /\ op_start # Raise
       /\ op_start = IF \/ Earlier(time_now, setting_instant)
                        \/ TooOld(setting_instant, time_now)
                     THEN None ELSE setting_instant

\* what get_time_dt returns for the setting when the age is counted in
\* whole days
BoundedSetting ==
    IF \/ ~SettingParses
       \/ Earlier(time_now, setting_instant)
       \/ WholeDaysExceeded(setting_instant, time_now)
    THEN None ELSE setting_instant

\* C20 (amended): get_time_dt returns null for every value that does not
\* parse, whose instant is later than now, or whose instant is 1461 days
\* or more before now, and the converted instant for every other value; it
\* never raises.  Without a checkpoint the returned instant is the start
\* of collection, and null leads to the default start.
C20_WholeDayBound ==
    Planned
    => /\ op_start # Raise
       /\ op_start = BoundedSetting
       /\ ~Truthy(payload_checkpoint)
          => time_start = IF BoundedSetting = None THEN time_default(time_now)
                          ELSE BoundedSetting

\* a setting 1460 days and 5 seconds old was taken as the start of
\* collection
C20_Witness ==
    /\ Planned /\ pc = "fetch"
    /\ time_setting = V("digits", NowSeconds - 4 * 365 * Day - 5, 0)
    /\ TooOld(setting_instant, time_now)
    /\ time_start = setting_instant

\* a time value arrived at an ingress point of the planner and is
\* unparseable or out of range: the time_start setting, or the time_start
\* of the checkpoint that get_checkpoint returned
BadIngress ==
    \/ Truthy(time_setting) /\ op_start = None
    \/ /\ payload_checkpoint.k = "dict"
       /\ get_time_dt(payload_checkpoint.time_start, time_now) = None

\* C21 (as claimed): an unparseable or out-of-range time value at an
\* ingress point is treated as absent: lines 383-431 still end with a start
\* of collection, now - 24h when neither the setting nor the checkpoint
\* gives a usable one, and the invocation goes on to the window loop
\* instead of ending with an exception.
C21_SoftFailuresPlan ==
    (Planned /\ BadIngress /\ queried = <<>>)
    => /\ pc # "raised"
       /\ time_start.k = "dt"
       /\ (/\ ~Truthy(op_start)
           /\ \/ ~Truthy(payload_checkpoint)
              \/ get_time_dt(payload_checkpoint.time_start, time_now) = None)
          => time_start = V("dt", time_now.s - 86400, 0)


====
